---- MODULE Spec2Model ----
(***************************************************************************)
(* Verification model of the p2pool-mini-observer data layer:              *)
(*   - the Fetch Client retry engine   (P2PoolAPI.fetchWithRetry)          *)
(*   - the Data Orchestrator           (useOptimizedP2PoolData)            *)
(*   - the Local Cache                 (P2PoolStorage)                     *)
(*   - Miner-Scoped Reconstruction     (getMinerShares/getMinerFoundBlocks)*)
(* The repository holds two copies of class P2PoolAPI (lib/p2pool-api.ts   *)
(* and the one appended to lib/storage.ts); variable client says which one *)
(* a behaviour runs.                                                       *)
(***************************************************************************)
EXTENDS Integers, Sequences, FiniteSets, TLC

VARIABLES
    client,        \* which copy of class P2PoolAPI is built
    \* ---- Fetch Client (one fetchWithRetry call at a time is observed)
    retryConfig,   \* P2PoolAPI.retryConfig
    pc,            \* position of the observed fetchWithRetry call
    attempt,       \* loop variable attempt
    callConfig,    \* the retryConfig argument the call was started with
    httpAttempts,  \* number of fetch() requests the call has issued
    slept,         \* the delays the call has slept, in order
    outcomes,      \* what each finished attempt of the call ended with
    timers,        \* attempts whose setTimeout(abort) is still armed
    lastError,     \* message of the error caught last (lastError)
    thrown,        \* message of the error the call rejected with
    nCalls,        \* calls started so far
    \* ---- Data Orchestrator and Local Cache
    apiUrl,        \* useOptimizedP2PoolData prop apiUrl
    minerAddress,  \* useOptimizedP2PoolData prop minerAddress ("" when unset)
    db,            \* P2PoolStorage.db: "open" or "null"
    stores,        \* IndexedDB object stores: store name -> key -> entry
    query,         \* react-query state per tracked entity (the observed keys)
    queryCache,    \* react-query cache: the queries under other keys
    now,           \* Date.now()
    lastRun,       \* the latest queryFn run: entity, inputs, outcome
    \* ---- Miner-Scoped Reconstruction
    mcall,         \* the observed getMinerShares / getMinerFoundBlocks call
    requests,      \* getShares / getFoundBlocks requests the call issued, in order
    lastPage,      \* the list upstream answered to the latest request
    \* ---- HTTP relay (the two route handlers)
    served,        \* the requests the relay has answered, in order
    \* ---- useWebWorker
    workerRef,         \* workerRef.current: "null" or "worker"
    pendingTasksRef,   \* keys of pendingTasksRef.current
    taskCounterRef,    \* taskCounterRef.current
    promises,          \* task number -> the promise executeTask returned
    taskTimers,        \* task numbers whose setTimeout(30000) is armed
    inbox              \* messages posted to the live worker, not yet answered

fetchVars == <<retryConfig, pc, attempt, callConfig, httpAttempts, slept,
               outcomes, timers, lastError, thrown, nCalls>>
orchVars  == <<apiUrl, minerAddress, db, stores, query, queryCache, now,
               lastRun>>
minerVars == <<mcall, requests, lastPage>>
relayVars == <<served>>
workerVars == <<workerRef, pendingTasksRef, taskCounterRef, promises,
                taskTimers, inbox>>
otherVars == <<relayVars, workerVars>>
vars      == <<client, fetchVars, orchVars, minerVars, otherVars>>

\* The two copies of the API client.
Clients == {"storage_ts", "p2pool_api_ts"}

\* No request has reached the relay.
RelayIdle == served = <<>>

\* useWebWorker before its effect has run: the initial values of the refs.
WorkerIdle ==
    /\ workerRef = "null"
    /\ pendingTasksRef = {}
    /\ taskCounterRef = 0
    /\ promises = <<>>
    /\ taskTimers = {}
    /\ inbox = {}

-----------------------------------------------------------------------------
(***************************************************************************)
(* Bounds of the model.                                                    *)
(***************************************************************************)
MaxCalls == 2
\* Upstream data: heights 1..MaxHeight, lists of at most MaxPage records.
MaxHeight == 3
MaxPage == 2
\* queryFn runs observed in one behaviour of the orchestrator.
MaxRuns == 3
\* queryFn runs and prop changes in one behaviour with changing props.
MaxSwitchOps == 4
\* queryFn runs and loadMore calls in one behaviour.
MaxLoadOps == 4
\* queryFn runs in one behaviour behind the relay.
MaxRelayRuns == 4
\* queryFn runs in one behaviour that uses up the retries of a query.
MaxErrRuns == 4
\* Storage calls and clock advances in one behaviour of the Local Cache.
MaxCacheOps == 4

-----------------------------------------------------------------------------
(***************************************************************************)
(* Strings.  String.prototype.includes.                                    *)
(***************************************************************************)
includes(msg, pat) ==
    \E i \in 1..(Len(msg) - Len(pat) + 1) : SubSeq(msg, i, i + Len(pat) - 1) = pat

-----------------------------------------------------------------------------
(***************************************************************************)
(* Fetch Client: retry configuration.                                      *)
(***************************************************************************)
DEFAULT_RETRY_CONFIG ==
    [maxRetries |-> 3, baseDelay |-> 1000, maxDelay |-> 10000, backoffMultiplier |-> 2]

\* The Partial<RetryConfig> arguments setRetryConfig is called with.
PartialConfigs ==
    { [maxRetries |-> 0],
      [maxRetries |-> 4],
      [maxRetries |-> 2, baseDelay |-> 3000, maxDelay |-> 5000] }

\* { ...this.retryConfig, ...config }
MergeConfig(base, partial) ==
    [f \in DOMAIN base |-> IF f \in DOMAIN partial THEN partial[f] ELSE base[f]]

RECURSIVE pow(_, _)
pow(b, e) == IF e = 0 THEN 1 ELSE b * pow(b, e - 1)

min(a, b) == IF a <= b THEN a ELSE b

\* A plausible slip: the exponent is the attempt number, not attempt - 1.
calculateDelay_exponentOff(n, config) ==
    min(config.baseDelay * pow(config.backoffMultiplier, n), config.maxDelay)

calculateDelay(n, config) ==
    min(config.baseDelay * pow(config.backoffMultiplier, n - 1), config.maxDelay)

-----------------------------------------------------------------------------
(***************************************************************************)
(* Fetch Client: what one HTTP attempt can end with.                       *)
(***************************************************************************)
\* HTTP statuses the relay/upstream answers with.
Statuses == {200, 400, 404, 405, 500, 503}

\* Reason phrase of a status (Response.statusText over HTTP/1.1).
StatusText(status) ==
    CASE status = 200 -> "OK"
      [] status = 400 -> "Bad Request"
      [] status = 404 -> "Not Found"
      [] status = 405 -> "Method Not Allowed"
      [] status = 500 -> "Internal Server Error"
      [] status = 503 -> "Service Unavailable"

\* response.ok
ok(status) == status >= 200 /\ status <= 299

\* new Error(`HTTP ${response.status}: ${response.statusText}`)
HttpError(status) ==
    [name |-> "Error",
     message |-> "HTTP " \o ToString(status) \o ": " \o StatusText(status)]

\* What fetch() rejects with when controller.abort() fires.
AbortErrors ==
    { [name |-> "AbortError", message |-> "signal is aborted without reason"] }

\* What fetch() rejects with on a connection failure.
NetworkErrors ==
    { [name |-> "TypeError", message |-> "Failed to fetch"],
      [name |-> "TypeError", message |-> "Load failed"] }

\* DEFAULT_RETRY_CONFIG.retryCondition, one per copy of the client.
retryCondition_storage(error) ==
    \/ error.name = "AbortError"
    \/ includes(error.message, "aborted")
    \/ includes(error.message, "fetch")
    \/ includes(error.message, "timeout")
    \/ includes(error.message, "Request timeout")
    \/ includes(error.message, "Network connection")
    \/ includes(error.message, "Server error")
    \/ includes(error.message, "5")

retryCondition_p2pool_api(error) ==
    \/ includes(error.message, "fetch")
    \/ includes(error.message, "timeout")
    \/ includes(error.message, "AbortError")
    \/ includes(error.message, "5")

retryCondition(error) ==
    IF client = "storage_ts" THEN retryCondition_storage(error)
    ELSE retryCondition_p2pool_api(error)

\* The catch block's classification (lib/storage.ts copy only).
errorMessage(error) ==
    IF error.name = "AbortError" \/ includes(error.message, "aborted")
    THEN "Request timeout (10000ms exceeded)"
    ELSE IF includes(error.message, "fetch") THEN "Network connection error"
    ELSE IF includes(error.message, "5") THEN "Server error"
    ELSE error.message

isRetryable(error) ==
    IF error.name = "AbortError" \/ includes(error.message, "aborted") THEN TRUE
    ELSE IF includes(error.message, "fetch") THEN TRUE
    ELSE IF includes(error.message, "5") THEN TRUE
    ELSE ~includes(error.message, "4")

\* A plausible slip: the retry test reads this.retryConfig, not the
\* argument the call was started with.
shouldRetry_liveConfig(n, config, error) ==
    /\ n <= retryConfig.maxRetries
    /\ (client = "storage_ts" => isRetryable(error))
    /\ retryCondition(error)

\* A plausible slip: the retry test forgets the attempt bound.
shouldRetry_unbounded(n, config, error) ==
    /\ (client = "storage_ts" => isRetryable(error))
    /\ retryCondition(error)

\* A plausible slip: attempt < maxRetries, one retry too few.
shouldRetry_offByOne(n, config, error) ==
    /\ n < config.maxRetries
    /\ (client = "storage_ts" => isRetryable(error))
    /\ retryCondition(error)

shouldRetry(n, config, error) ==
    /\ n <= config.maxRetries
    /\ (client = "storage_ts" => isRetryable(error))
    /\ retryCondition(error)

\* The error the call rejects with on its final failure.
finalError(error) ==
    IF client = "storage_ts" THEN "Connection failed: " \o errorMessage(error)
    ELSE error.message

-----------------------------------------------------------------------------
(***************************************************************************)
(* Fetch Client: P2PoolAPI.fetchWithRetry as a state machine.              *)
(*   pc = "attempting": a fetch() is in flight for loop iteration attempt  *)
(*   pc = "sleeping"  : awaiting this.sleep(delay) in the catch block      *)
(*   pc = "success"   : the call returned the response                     *)
(*   pc = "failed"    : the call rejected                                  *)
(***************************************************************************)
FetchInit ==
    /\ retryConfig = DEFAULT_RETRY_CONFIG
    /\ pc = "idle"
    /\ attempt = 0
    /\ callConfig = DEFAULT_RETRY_CONFIG
    /\ httpAttempts = 0
    /\ slept = <<>>
    /\ outcomes = <<>>
    /\ timers = {}
    /\ lastError = ""
    /\ thrown = ""
    /\ nCalls = 0

\* setRetryConfig(config)
setRetryConfig(partial) ==
    /\ retryConfig' = MergeConfig(retryConfig, partial)
    /\ retryConfig' # retryConfig
    /\ UNCHANGED <<pc, attempt, callConfig, httpAttempts, slept, outcomes,
                   timers, lastError, thrown, nCalls>>

\* fetchWithTimeout -> fetchWithRetry(endpoint, params, timeout, this.retryConfig):
\* the loop is entered with attempt = 1, the abort timer armed and fetch() issued.
StartFetch ==
    /\ pc \in {"idle", "success", "failed"}
    /\ nCalls < MaxCalls
    /\ nCalls' = nCalls + 1
    /\ callConfig' = retryConfig
    /\ attempt' = 1
    /\ pc' = "attempting"
    /\ httpAttempts' = 1
    /\ timers' = {1}
    /\ slept' = <<>>
    /\ outcomes' = <<>>
    /\ lastError' = ""
    /\ thrown' = ""
    /\ UNCHANGED retryConfig

\* The catch block: final failure, or the backoff delay.
Catch(error, what) ==
    /\ outcomes' = Append(outcomes, what)
    /\ timers' = timers \ {attempt}
    /\ lastError' = error.message
    /\ IF shouldRetry(attempt, callConfig, error)
       THEN /\ pc' = "sleeping"
            /\ slept' = Append(slept, calculateDelay(attempt, callConfig))
            /\ UNCHANGED thrown
       ELSE /\ pc' = "failed"
            /\ thrown' = finalError(error)
            /\ UNCHANGED slept
    /\ UNCHANGED <<retryConfig, attempt, callConfig, httpAttempts, nCalls>>

\* fetch() resolves with a response before the timer fires.
HttpResponse(status) ==
    /\ pc = "attempting"
    /\ attempt \in timers
    /\ IF ok(status)
       THEN /\ pc' = "success"
            /\ timers' = timers \ {attempt}
            /\ outcomes' = Append(outcomes, [kind |-> "http", status |-> status])
            /\ UNCHANGED <<retryConfig, attempt, callConfig, httpAttempts,
                           slept, lastError, thrown, nCalls>>
       ELSE Catch(HttpError(status), [kind |-> "http", status |-> status])

\* fetch() rejects: connection failure.
NetworkError(error) ==
    /\ pc = "attempting"
    /\ attempt \in timers
    /\ Catch(error, [kind |-> "network", status |-> 0])

\* The timer fires: controller.abort(), fetch() rejects with an AbortError.
Timeout(error) ==
    /\ pc = "attempting"
    /\ attempt \in timers
    /\ Catch(error, [kind |-> "timeout", status |-> 0])

\* this.sleep(delay) resolves: next loop iteration, or the loop ends.
SleepDone ==
    /\ pc = "sleeping"
    /\ attempt' = attempt + 1
    /\ IF attempt + 1 <= callConfig.maxRetries + 1
       THEN /\ pc' = "attempting"
            /\ httpAttempts' = httpAttempts + 1
            /\ timers' = timers \cup {attempt + 1}
            /\ UNCHANGED thrown
       ELSE /\ pc' = "failed"
            /\ thrown' = lastError
            /\ UNCHANGED <<httpAttempts, timers>>
    /\ UNCHANGED <<retryConfig, callConfig, slept, outcomes, lastError, nCalls>>

-----------------------------------------------------------------------------
(***************************************************************************)
(* Miner-Scoped Reconstruction: getMinerShares / getMinerSharesDirect /    *)
(* getMinerFoundBlocks.  A record stands for a SideBlock (height is        *)
(* side_height, id is template_id) or a FoundBlock (height is              *)
(* main_block.height, id is main_block.id).                                *)
(***************************************************************************)
Addresses == {"a1", "a2"}
Heights == 1..MaxHeight
Undefined == 0 - 1          \* an absent fromHeight argument
Limits == {1, 2}            \* the limit arguments used

AddrIndex(a) == IF a = "a1" THEN 0 ELSE 1

\* The records upstream holds: one per (height, miner), each with its own id.
Records ==
    { [id |-> 2 * h + AddrIndex(a), height |-> h, miner_address |-> a] :
        h \in Heights, a \in Addresses }

\* The JSON arrays upstream can answer with: any records in any order, a
\* record possibly more than once.
RECURSIVE PagesOfLen(_)
PagesOfLen(n) ==
    IF n = 0 THEN {<<>>}
    ELSE { Append(q, r) : q \in PagesOfLen(n - 1), r \in Records }

AllPages == UNION { PagesOfLen(n) : n \in 0..MaxPage }

\* Upstream honours the miner filter and the limit of a request.
PagesFor(req) ==
    { q \in AllPages :
        /\ Len(q) <= req.limit
        /\ req.miner # "" => \A i \in DOMAIN q : q[i].miner_address = req.miner }

\* A plausible slip: the comparator is a.height - b.height (ascending).
RECURSIVE InsertAsc(_, _)
InsertAsc(sorted, r) ==
    IF sorted = <<>> THEN <<r>>
    ELSE IF Head(sorted).height <= r.height
         THEN <<Head(sorted)>> \o InsertAsc(Tail(sorted), r)
         ELSE <<r>> \o sorted

RECURSIVE sortDesc_ascending(_)
sortDesc_ascending(q) ==
    IF q = <<>> THEN <<>>
    ELSE InsertAsc(sortDesc_ascending(SubSeq(q, 1, Len(q) - 1)), q[Len(q)])

\* Array.prototype.sort((a, b) => b.height - a.height): stable, descending.
RECURSIVE InsertDesc(_, _)
InsertDesc(sorted, r) ==
    IF sorted = <<>> THEN <<r>>
    ELSE IF Head(sorted).height >= r.height
         THEN <<Head(sorted)>> \o InsertDesc(Tail(sorted), r)
         ELSE <<r>> \o sorted

RECURSIVE sortDesc(_)
sortDesc(q) ==
    IF q = <<>> THEN <<>>
    ELSE InsertDesc(sortDesc(SubSeq(q, 1, Len(q) - 1)), q[Len(q)])

\* Array.prototype.slice(0, limit)
slice(q, limit) == SubSeq(q, 1, min(Len(q), limit))

\* Math.min(...all.map(r => r.height))
minHeight(q) ==
    CHOOSE h \in { q[i].height : i \in DOMAIN q } :
        \A i \in DOMAIN q : h <= q[i].height

\* A plausible slip: the height filter is left out.
filtered_addressOnly(q, address, cursor) ==
    SelectSeq(q, LAMBDA r : r.miner_address = address)

\* filter by miner address, then by height below the cursor
filtered(q, address, cursor) ==
    SelectSeq(q, LAMBDA r : /\ r.miner_address = address
                             /\ (cursor # Undefined => r.height < cursor))

\* A plausible slip: every accepted record is pushed.
addNew_noDedup(acc, q) == acc \o q

\* "Add new shares, avoiding duplicates"
RECURSIVE addNew(_, _)
addNew(acc, q) ==
    IF q = <<>> THEN acc
    ELSE IF \E i \in DOMAIN acc : acc[i].id = Head(q).id
         THEN addNew(acc, Tail(q))
         ELSE addNew(Append(acc, Head(q)), Tail(q))

maxAttempts == 5

\* Math.min(500 + attempts * 200, 1000) and Math.min(200 + attempts * 100, 500)
batchSize(kind, attempts) ==
    IF kind = "shares" THEN min(500 + attempts * 200, 1000)
    ELSE min(200 + attempts * 100, 500)

endpoint(kind) == IF kind = "shares" THEN "shares" ELSE "found_blocks"

\* getShares(limit, miner) / getFoundBlocks(limit, miner): one upstream request
Request(kind, limit, miner) ==
    [endpoint |-> endpoint(kind), limit |-> limit, miner |-> miner]

MinerIdle ==
    /\ mcall = [pc |-> "idle", kind |-> "shares", address |-> "a1", limit |-> 1,
                fromHeight |-> Undefined, attempts |-> 0,
                currentFromHeight |-> Undefined, allMiner |-> <<>>,
                result |-> <<>>, failedBatches |-> 0, path |-> "none"]
    /\ requests = <<>>
    /\ lastPage = <<>>

\* if (!fromHeight) return await this.getMinerSharesDirect(address, limit)
\* (getMinerFoundBlocks has no such branch)
takesDirectPath(kind, fromHeight) == kind = "shares" /\ fromHeight = Undefined

-----------------------------------------------------------------------------
(***************************************************************************)
(* Local Cache: P2PoolStorage over IndexedDB.                              *)
(***************************************************************************)
STORES == {"poolInfo", "minerInfo", "shares", "blocks", "payouts", "metadata"}

\* The indexes init() creates in each object store.
Indexes(storeName) ==
    CASE storeName = "poolInfo"  -> {"timestamp", "apiUrl"}
      [] storeName = "minerInfo" -> {"timestamp", "apiUrl", "address"}
      [] storeName = "shares"    -> {"timestamp", "apiUrl"}
      [] storeName = "blocks"    -> {"timestamp", "apiUrl"}
      [] storeName = "payouts"   -> {"timestamp", "apiUrl", "address"}
      [] storeName = "metadata"  -> {}

\* The keys the store methods build.
poolKey(url)          == "pool_" \o url
\* A miner-info key that leaves the API URL out.
minerKey_addressOnly(url, a) == "miner_" \o a
minerKey(url, a)      == "miner_" \o url \o "_" \o a
payoutsKey(url, a)    == "payouts_" \o url \o "_" \o a
shareKey(url, r)      == "share_" \o url \o "_" \o ToString(r.height) \o "_" \o ToString(r.id)
blockKey(url, r)      == "block_" \o url \o "_" \o ToString(r.height) \o "_" \o ToString(r.id)

\* A key that also carries the time of the write.
recordKey_perWrite(storeName, url, r) ==
    (IF storeName = "shares" THEN shareKey(url, r) ELSE blockKey(url, r))
       \o "_" \o ToString(now)

recordKey(storeName, url, r) ==
    IF storeName = "shares" THEN shareKey(url, r) ELSE blockKey(url, r)

\* objectStore.put(storedData)
put(f, key, entry) ==
    [k \in (DOMAIN f) \cup {key} |-> IF k = key THEN entry ELSE f[k]]

\* StoredData written at time t
storedData(data, t) == [data |-> data, timestamp |-> t, lastAccessed |-> t]

\* Outcome of a storage method: it returned (ok) or threw (message), and the
\* stores it leaves behind.
Returned(st)       == [ok |-> TRUE,  message |-> "", stores |-> st]
Threw(st, message) == [ok |-> FALSE, message |-> message, stores |-> st]

\* ensureReady(): throws when init() left db null
notReady == db = "null"

\* store(storeName, key, data).  ioOk: the transaction's put succeeds.
store(st, storeName, key, data, ioOk) ==
    IF notReady THEN Threw(st, "Storage not initialized")
    ELSE IF ~ioOk THEN Threw(st, "QuotaExceededError")
    ELSE Returned([st EXCEPT ![storeName] = put(@, key, storedData(data, now))])

\* retrieve(storeName, key): the data, with lastAccessed refreshed, or null
retrieve(st, storeName, key, ioOk) ==
    IF notReady THEN [found |-> FALSE] @@ Threw(st, "Storage not initialized")
    ELSE IF key \notin DOMAIN st[storeName] THEN [found |-> FALSE] @@ Returned(st)
    ELSE IF ~ioOk THEN [found |-> FALSE] @@ Threw(st, "QuotaExceededError")
    ELSE [found |-> TRUE] @@
         Returned([st EXCEPT ![storeName][key].lastAccessed = now])

\* the for loop of storeShares / storeBlocks
RECURSIVE putAll(_, _, _, _)
putAll(f, storeName, url, records) ==
    IF records = <<>> THEN f
    ELSE putAll(put(f, recordKey(storeName, url, Head(records)),
                    storedData(Head(records), now)),
                storeName, url, Tail(records))

\* storeShares(apiUrl, shares) / storeBlocks(apiUrl, blocks)
storeRecords(st, storeName, url, records, ioOk) ==
    IF notReady THEN Threw(st, "Storage not initialized")
    ELSE IF records = <<>> THEN Returned(st)
    ELSE IF ~ioOk THEN Threw(st, "QuotaExceededError")
    ELSE Returned([st EXCEPT ![storeName] = putAll(@, storeName, url, records)])

\* getSharesByMiner / getBlocksByMiner: objectStore.index('miner_address')
\* throws NotFoundError when the store has no such index; an index on a
\* property the stored objects lack matches nothing.
getByMiner(st, storeName) ==
    IF notReady THEN Threw(st, "Storage not initialized")
    ELSE IF "miner_address" \notin Indexes(storeName) THEN Threw(st, "NotFoundError")
    ELSE Returned(st)

-----------------------------------------------------------------------------
(***************************************************************************)
(* Data Orchestrator: useOptimizedP2PoolData.  One query per tracked       *)
(* entity; a run of its queryFn is one action.                             *)
(***************************************************************************)
PoolEntities  == {"poolInfo", "recentShares", "foundBlocks", "xmrPrice"}
MinerEntities == {"minerInfo", "minerShares", "minerBlocks", "minerPayouts",
                  "minerWindowShares"}
Entities == PoolEntities \cup MinerEntities

\* Entities whose data is a JSON object or number (a snapshot version here),
\* the others are arrays.
ScalarEntities == {"poolInfo", "minerInfo", "xmrPrice"}

\* enabled: !!minerAddress
enabled(e) == e \in MinerEntities => minerAddress # ""

\* data before the first fetch / an empty result
Empty(e) == IF e \in ScalarEntities THEN 0 ELSE <<>>

\* The newest record of a miner.
newest(a) == [id |-> 2 * MaxHeight + AddrIndex(a), height |-> MaxHeight,
              miner_address |-> a]

\* What upstream can answer for an entity.
UpValues(e) ==
    CASE e \in ScalarEntities -> {1, 2}
      [] e \in {"recentShares", "foundBlocks"} ->
            {<<>>} \cup { <<newest(a)>> : a \in Addresses }
      [] e \in {"minerShares", "minerBlocks", "minerWindowShares"} ->
            {<<>>, <<newest(minerAddress)>>}
      [] e = "minerPayouts" -> {<<>>, <<1>>}

\* The upstream fetch of one run: a 2xx answer with a value, or a failure.
UpOutcomes(e) ==
    { [ok |-> TRUE, status |-> 200, value |-> v] : v \in UpValues(e) }
      \cup { [ok |-> FALSE, status |-> st, value |-> Empty(e)] : st \in {404, 503} }

\* What fetchWithTimeout rejects with after a failed fetch.
fetchFailure(status) == finalError(HttpError(status))

\* The message the API method throws with after a failed fetch.
apiMessage(e, status) ==
    LET msg == fetchFailure(status)
        s_ts == client = "storage_ts"
    IN  CASE e = "poolInfo" ->
               IF s_ts THEN "Unable to fetch pool information"
               ELSE "Failed to fetch pool info: " \o msg
          [] e = "minerInfo" ->
               IF includes(msg, "404") THEN "Miner not found"
               ELSE IF s_ts THEN "Unable to fetch miner information"
               ELSE "Failed to fetch miner info: " \o msg
          [] e = "recentShares" ->
               IF s_ts THEN "Unable to fetch share data"
               ELSE "Failed to fetch shares: " \o msg
          [] e = "foundBlocks" ->
               IF s_ts THEN "Unable to fetch found blocks data"
               ELSE "Failed to fetch found blocks: " \o msg
          [] e = "xmrPrice" ->
               "Failed to fetch XMR price: HTTP error! status: " \o ToString(status)
          [] e = "minerPayouts" -> "Failed to fetch miner payouts: " \o msg
          [] OTHER -> ""

\* No API method catches its failure.
SwallowingEntities_none == {}

\* API methods that catch every failure and return an empty result.
SwallowingEntities == {"minerShares", "minerBlocks", "minerWindowShares"}

\* getMinerPayouts returns [] when the message includes '404'; past that
\* one copy returns [] as well and the other throws.
payoutsSwallows(status) ==
    \/ includes(fetchFailure(status), "404")
    \/ client = "storage_ts"

\* The API method the queryFn calls: getPoolInfo, getShares(10),
\* getFoundBlocks(5), getXMRPrice, getMinerInfo, getMinerSharesDirect,
\* getMinerFoundBlocks, getMinerPayouts, getMinerWindowShares.
apiCall(e, up) ==
    IF up.ok
    THEN [ok |-> TRUE, message |-> "",
          value |-> IF e = "minerShares" THEN sortDesc(up.value) ELSE up.value]
    ELSE IF e \in SwallowingEntities \/ (e = "minerPayouts" /\ payoutsSwallows(up.status))
         THEN [ok |-> TRUE, message |-> "", value |-> Empty(e)]
         ELSE [ok |-> FALSE, message |-> apiMessage(e, up.status), value |-> Empty(e)]

Resolved(value, st)  == [resolved |-> TRUE,  value |-> value, message |-> "", stores |-> st]
Rejected(e, message, st) ==
    [resolved |-> FALSE, value |-> Empty(e), message |-> message, stores |-> st]

\* try { data = await api...; await storage.store...; return data }
\* catch (error) { cached = await storage.get...; if (cached) return cached;
\*                 throw error }          (poolInfo, minerInfo, minerPayouts)
queryFnKeyed(e, storeName, key, up, ioOk) ==
    LET a == apiCall(e, up)
        w == store(stores, storeName, key, a.value, ioOk)
        error == IF a.ok THEN w.message ELSE a.message
        r == retrieve(stores, storeName, key, ioOk)
    IN  IF a.ok /\ w.ok THEN Resolved(a.value, w.stores)
        ELSE IF ~r.ok THEN Rejected(e, r.message, r.stores)
        ELSE IF r.found THEN Resolved(stores[storeName][key].data, r.stores)
        ELSE Rejected(e, error, r.stores)

\* shares = await api.getShares(10); await storage.storeShares(apiUrl, shares);
\* return shares                              (recentShares, foundBlocks)
queryFnBulk(e, storeName, up, ioOk) ==
    LET a == apiCall(e, up)
        w == storeRecords(stores, storeName, apiUrl, a.value, ioOk)
    IN  IF ~a.ok THEN Rejected(e, a.message, stores)
        ELSE IF ~w.ok THEN Rejected(e, w.message, stores)
        ELSE Resolved(a.value, w.stores)

\* try { shares = await api.getMinerSharesDirect(...); await storeShares;
\*       return shares }
\* catch (error) { cached = await storage.getSharesByMiner(...);
\*                 if (cached.length > 0) return cached; throw error }
\*                                            (minerShares, minerBlocks)
queryFnMinerList(e, storeName, up, ioOk) ==
    LET a == apiCall(e, up)
        w == storeRecords(stores, storeName, apiUrl, a.value, ioOk)
        g == getByMiner(stores, storeName)
    IN  IF w.ok THEN Resolved(a.value, w.stores)
        ELSE IF ~g.ok THEN Rejected(e, g.message, stores)
        ELSE Rejected(e, w.message, stores)

\* return api.getMinerWindowShares(minerAddress) / priceApi.getXMRPrice()
queryFnPlain(e, up) ==
    LET a == apiCall(e, up)
    IN  IF a.ok THEN Resolved(a.value, stores) ELSE Rejected(e, a.message, stores)

queryFn(e, up, ioOk) ==
    CASE e = "poolInfo" ->
            queryFnKeyed(e, "poolInfo", poolKey(apiUrl), up, ioOk)
      [] e = "minerInfo" ->
            queryFnKeyed(e, "minerInfo", minerKey(apiUrl, minerAddress), up, ioOk)
      [] e = "minerPayouts" ->
            queryFnKeyed(e, "payouts", payoutsKey(apiUrl, minerAddress), up, ioOk)
      [] e = "recentShares" -> queryFnBulk(e, "shares", up, ioOk)
      [] e = "foundBlocks"  -> queryFnBulk(e, "blocks", up, ioOk)
      [] e = "minerShares"  -> queryFnMinerList(e, "shares", up, ioOk)
      [] e = "minerBlocks"  -> queryFnMinerList(e, "blocks", up, ioOk)
      [] OTHER -> queryFnPlain(e, up)

\* retry: 3 (queryClient defaultOptions)
queryRetry == 3

OrchIdle ==
    /\ apiUrl = "u1"
    /\ minerAddress = ""
    /\ db = "open"
    /\ stores = [sn \in STORES |-> <<>>]
    /\ query = [e \in Entities |->
                  [hasData |-> FALSE, data |-> Empty(e), error |-> "",
                   dataUpdatedAt |-> 0, failureCount |-> 0]]
    /\ queryCache = <<>>
    /\ now = 1
    /\ lastRun = [n |-> 0, entity |-> "poolInfo", fetchOk |-> TRUE,
                  resolved |-> TRUE, fetched |-> 0, io |-> TRUE]

\* react-query runs the queryFn of an enabled query (mount, refetchInterval,
\* invalidateQueries or a retry) and commits its outcome: data on success;
\* on failure data is kept and the error is set once the retries are used up.
RunQuery(e, up, ioOk) ==
    /\ enabled(e)
    /\ LET r == queryFn(e, up, ioOk)
       IN  /\ stores' = r.stores
           /\ lastRun' = [n |-> lastRun.n + 1, entity |-> e, fetchOk |-> up.ok,
                          resolved |-> r.resolved, fetched |-> up.value,
                          io |-> ioOk, up |-> up]
           /\ query' = [query EXCEPT ![e] =
                 IF r.resolved
                 THEN [hasData |-> TRUE, data |-> r.value, error |-> "",
                       dataUpdatedAt |-> now, failureCount |-> 0]
                 ELSE IF @.failureCount < queryRetry
                      THEN [@ EXCEPT !.failureCount = @ + 1]
                      ELSE [@ EXCEPT !.failureCount = 0, !.error = r.message]]
    /\ now' = now + 1
    /\ UNCHANGED <<apiUrl, minerAddress, db, queryCache>>

-----------------------------------------------------------------------------
(***************************************************************************)
(* The Fetch Client on its own.                                            *)
(***************************************************************************)

Init ==
    /\ client \in Clients
    /\ FetchInit
    /\ OrchIdle
    /\ MinerIdle
    /\ RelayIdle
    /\ WorkerIdle

Next ==
    \/ \E partial \in PartialConfigs :
          setRetryConfig(partial) /\ UNCHANGED <<client, orchVars, minerVars, otherVars>>
    \/ StartFetch /\ UNCHANGED <<client, orchVars, minerVars, otherVars>>
    \/ \E status \in Statuses :
          HttpResponse(status) /\ UNCHANGED <<client, orchVars, minerVars, otherVars>>
    \/ \E error \in NetworkErrors :
          NetworkError(error) /\ UNCHANGED <<client, orchVars, minerVars, otherVars>>
    \/ \E error \in AbortErrors :
          Timeout(error) /\ UNCHANGED <<client, orchVars, minerVars, otherVars>>
    \/ SleepDone /\ UNCHANGED <<client, orchVars, minerVars, otherVars>>

Spec == Init /\ [][Next]_vars

\* Each HTTP attempt either responds or times out, and a backoff sleep ends.
AttemptEnds ==
    \/ \E status \in Statuses : HttpResponse(status)
    \/ \E error \in NetworkErrors : NetworkError(error)
    \/ \E error \in AbortErrors : Timeout(error)

FairSpec ==
    /\ Init
    /\ [][Next]_vars
    /\ WF_vars(AttemptEnds /\ UNCHANGED <<client, orchVars, minerVars, otherVars>>)
    /\ WF_vars(SleepDone /\ UNCHANGED <<client, orchVars, minerVars, otherVars>>)

-----------------------------------------------------------------------------
(***************************************************************************)
(* Claims about the Fetch Client.                                          *)
(***************************************************************************)
Is5xx(o) == o.kind = "http" /\ o.status >= 500 /\ o.status <= 599
Is4xx(o) == o.kind = "http" /\ o.status >= 400 /\ o.status <= 499
Terminal == pc \in {"success", "failed"}

\* C1: a call whose every HTTP attempt returns a 5xx status performs exactly
\* maxRetries + 1 attempts and then fails with a terminal error: it never
\* issues more than maxRetries + 1 requests, and it does not end before.
C1_AttemptsOn5xx ==
    (pc # "idle" /\ \A i \in DOMAIN outcomes : Is5xx(outcomes[i])) =>
        /\ httpAttempts <= callConfig.maxRetries + 1
        /\ Terminal =>
             /\ pc = "failed"
             /\ thrown # ""
             /\ httpAttempts = callConfig.maxRetries + 1
             /\ Len(outcomes) = callConfig.maxRetries + 1

\* C1 witness: the default policy, four 503 answers, terminal failure.
C1_Witness ==
    /\ pc = "failed"
    /\ callConfig = DEFAULT_RETRY_CONFIG
    /\ httpAttempts = 4
    /\ outcomes = [i \in 1..4 |-> [kind |-> "http", status |-> 503]]

\* C2 (as claimed): a call whose first attempt returns a status in 400..499
\* performs exactly one HTTP attempt and fails at once, with no backoff delay.
C2_NoRetryOn4xx ==
    (Len(outcomes) >= 1 /\ Is4xx(outcomes[1])) =>
        /\ httpAttempts = 1
        /\ pc = "failed"
        /\ slept = <<>>

\* The delays of the default policy, by attempt.
DefaultDelays == <<1000, 2000, 4000, 8000, 10000>>

\* C6: the n-th delay slept (after failed attempt n) is
\* min(baseDelay * backoffMultiplier^(n-1), maxDelay); under the default
\* delays it is 1000, 2000, 4000, 8000; no delay exceeds maxDelay.
C6_BackoffDelay ==
    /\ pc = "sleeping" => Len(slept) = attempt
    /\ \A n \in DOMAIN slept :
         LET raw == callConfig.baseDelay * pow(callConfig.backoffMultiplier, n - 1)
         IN  /\ slept[n] <= callConfig.maxDelay
             /\ slept[n] <= raw
             /\ slept[n] \in {raw, callConfig.maxDelay}
             /\ ( /\ callConfig.baseDelay = 1000
                  /\ callConfig.backoffMultiplier = 2
                  /\ callConfig.maxDelay = 10000 ) => slept[n] = DefaultDelays[n]

\* C6 witness: four delays slept under the default delays.
C6_Witness == slept = <<1000, 2000, 4000, 8000>>

\* C7: a call starts in Attempting(1); Attempting(n) is left only for
\* Success, TerminalFailure or (through the backoff sleep) Attempting(n+1);
\* the attempt number never exceeds maxRetries + 1; and every call
\* eventually ends in Success or TerminalFailure.
C7_StateMachine ==
    /\ [][ /\ (pc # "attempting" /\ pc' = "attempting" /\ pc # "sleeping")
              => attempt' = 1
           /\ (pc = "attempting" /\ pc' # "attempting")
              => /\ pc' \in {"success", "failed", "sleeping"}
                 /\ attempt' = attempt
           /\ (pc = "attempting" /\ pc' = "attempting") => attempt' = attempt
           /\ (pc = "sleeping" /\ pc' # "sleeping")
              => pc' = "attempting" /\ attempt' = attempt + 1
         ]_vars
    /\ [](pc # "idle" => (attempt >= 1 /\ attempt <= callConfig.maxRetries + 1))
    /\ [](pc \in {"attempting", "sleeping"} => <>Terminal)

\* C7 witness: a call that ended in Success at its last permitted attempt.
C7_Witness ==
    /\ pc = "success"
    /\ attempt = callConfig.maxRetries + 1
    /\ attempt > 1

-----------------------------------------------------------------------------
(***************************************************************************)
(* Miner-Scoped Reconstruction as a state machine.                         *)
(*   mcall.pc = "direct": getMinerSharesDirect awaits getShares(limit, a)  *)
(*   mcall.pc = "batch" : the loop awaits getShares/getFoundBlocks(batch)  *)
(*   mcall.pc = "done"  : the call has resolved with mcall.result          *)
(***************************************************************************)
\* A plausible slip: a page with no record accepted for the miner ends the
\* search.
loopBody_stopsOnNoMatch(m, page) ==
    LET f    == filtered(page, m.address, m.currentFromHeight)
        acc  == addNew(m.allMiner, f)
        minH == minHeight(page)
        moves == Len(f) > 0 /\ Len(acc) < m.limit
        progress == m.currentFromHeight = Undefined \/ minH < m.currentFromHeight
    IN  [allMiner |-> acc,
         currentFromHeight |-> IF moves /\ progress THEN minH
                               ELSE m.currentFromHeight,
         break |-> (moves /\ ~progress) \/ Len(acc) >= m.limit \/ Len(f) = 0]

\* One loop body run on a non-empty page: the new accumulator, the new
\* cursor, and whether the body ended with break.
loopBody(m, page) ==
    LET f    == filtered(page, m.address, m.currentFromHeight)
        acc  == addNew(m.allMiner, f)
        minH == minHeight(page)
        moves == (Len(f) > 0 /\ Len(acc) < m.limit) \/ Len(f) = 0
        progress == m.currentFromHeight = Undefined \/ minH < m.currentFromHeight
    IN  [allMiner |-> acc,
         currentFromHeight |-> IF moves /\ progress THEN minH
                               ELSE m.currentFromHeight,
         break |-> (moves /\ ~progress) \/ Len(acc) >= m.limit]

\* "Sort by height descending (newest first) and limit results"
finish(m) ==
    [m EXCEPT !.pc = "done", !.result = slice(sortDesc(m.allMiner), m.limit)]

\* The while condition, then attempts++ and the next batch request.
loopNext(m, break) ==
    IF ~break /\ Len(m.allMiner) < m.limit /\ m.attempts < maxAttempts
    THEN /\ mcall' = [m EXCEPT !.pc = "batch", !.attempts = m.attempts + 1]
         /\ requests' = Append(requests,
                               Request(m.kind, batchSize(m.kind, m.attempts + 1), ""))
    ELSE /\ mcall' = finish(m)
         /\ UNCHANGED requests

\* getMinerShares(address, limit, fromHeight) or
\* getMinerFoundBlocks(address, limit, fromHeight) is called
StartMinerCall(kind, address, limit, fromHeight) ==
    /\ mcall.pc \in {"idle", "done"}
    /\ lastPage' = <<>>
    /\ LET m == [pc |-> "idle", kind |-> kind, address |-> address, limit |-> limit,
                 fromHeight |-> fromHeight, attempts |-> 0,
                 currentFromHeight |-> fromHeight, allMiner |-> <<>>,
                 result |-> <<>>, failedBatches |-> 0, path |-> "scan"]
       IN  IF takesDirectPath(kind, fromHeight)
           THEN /\ mcall' = [m EXCEPT !.pc = "direct", !.path = "direct"]
                /\ requests' = <<Request(kind, limit, address)>>
           ELSE /\ mcall' = [m EXCEPT !.pc = "batch", !.attempts = 1]
                /\ requests' = <<Request(kind, batchSize(kind, 1), "")>>

\* getMinerSharesDirect: getShares(limit, address) resolves; sort and return
DirectResponds(page) ==
    /\ mcall.pc = "direct"
    /\ page \in PagesFor(requests[Len(requests)])
    /\ lastPage' = page
    /\ mcall' = [mcall EXCEPT !.pc = "done", !.allMiner = page,
                              !.result = sortDesc(page)]
    /\ UNCHANGED requests

\* getMinerSharesDirect: getShares throws; "Return empty array"
DirectFails ==
    /\ mcall.pc = "direct"
    /\ mcall' = [mcall EXCEPT !.pc = "done", !.result = <<>>,
                              !.failedBatches = 1]
    /\ UNCHANGED <<requests, lastPage>>

\* the loop's getShares(batchSize) / getFoundBlocks(batchSize) resolves
BatchResponds(page) ==
    /\ mcall.pc = "batch"
    /\ page \in PagesFor(requests[Len(requests)])
    /\ lastPage' = page
    /\ IF page = <<>>
       THEN mcall' = finish(mcall) /\ UNCHANGED requests
       ELSE LET b == loopBody(mcall, page)
            IN  loopNext([mcall EXCEPT !.allMiner = b.allMiner,
                                       !.currentFromHeight = b.currentFromHeight],
                         b.break)

\* the loop's getShares / getFoundBlocks throws.  lib/storage.ts catches it
\* inside the loop; lib/p2pool-api.ts has no inner try and returns [] from
\* the outer catch.
BatchFails ==
    /\ mcall.pc = "batch"
    /\ UNCHANGED lastPage
    /\ IF client = "storage_ts"
       THEN loopNext([mcall EXCEPT !.failedBatches = mcall.failedBatches + 1],
                     mcall.attempts >= maxAttempts)
       ELSE /\ mcall' = [mcall EXCEPT !.pc = "done", !.result = <<>>,
                                      !.failedBatches = mcall.failedBatches + 1]
            /\ UNCHANGED requests

MinerInit ==
    /\ client \in Clients
    /\ FetchInit
    /\ OrchIdle
    /\ MinerIdle
    /\ RelayIdle
    /\ WorkerIdle

MinerNext ==
    \/ \E kind \in {"shares", "blocks"}, address \in Addresses, limit \in Limits,
          fromHeight \in {Undefined} \cup (Heights \ {1}) \cup {MaxHeight + 1} :
          StartMinerCall(kind, address, limit, fromHeight)
             /\ UNCHANGED <<client, fetchVars, orchVars, otherVars>>
    \/ \E page \in AllPages :
          DirectResponds(page) /\ UNCHANGED <<client, fetchVars, orchVars, otherVars>>
    \/ DirectFails /\ UNCHANGED <<client, fetchVars, orchVars, otherVars>>
    \/ \E page \in AllPages :
          BatchResponds(page) /\ UNCHANGED <<client, fetchVars, orchVars, otherVars>>
    \/ BatchFails /\ UNCHANGED <<client, fetchVars, orchVars, otherVars>>

MinerSpec == MinerInit /\ [][MinerNext]_vars

-----------------------------------------------------------------------------
(***************************************************************************)
(* Claims about Miner-Scoped Reconstruction.                               *)
(***************************************************************************)
\* C8 (as claimed): when no from-height cursor is supplied, retrieval of a
\* miner's shares and of a miner's found blocks issues exactly one upstream
\* request, with the miner filter and the requested limit, and no
\* unfiltered bulk request.
C8_OneFilteredRequest ==
    (mcall.pc # "idle" /\ mcall.fromHeight = Undefined) =>
        requests = <<Request(mcall.kind, mcall.limit, mcall.address)>>

\* C9 (as claimed): on the historical path a failed batch fetch counts as an
\* attempt that yielded nothing: while attempts remain the loop goes on with
\* the next attempt, and the call resolves with the records accumulated from
\* the successful batches (sorted, cut to the limit), not with an empty list.
C9_BatchFailureSwallowed ==
    /\ [][ ( /\ mcall.fromHeight # Undefined
             /\ mcall.pc = "batch"
             /\ mcall'.failedBatches = mcall.failedBatches + 1
             /\ mcall.attempts < maxAttempts )
           => ( /\ mcall'.pc = "batch"
                /\ mcall'.attempts = mcall.attempts + 1
                /\ mcall'.allMiner = mcall.allMiner ) ]_vars
    /\ []( ( /\ mcall.fromHeight # Undefined
             /\ mcall.pc = "done"
             /\ mcall.failedBatches > 0 )
           => ( /\ Len(mcall.result) = min(Len(mcall.allMiner), mcall.limit)
                /\ \A i \in DOMAIN mcall.result :
                      \E j \in DOMAIN mcall.allMiner :
                         mcall.result[i] = mcall.allMiner[j] ) )

isSortedDesc(q) ==
    \A i, j \in DOMAIN q : i < j => q[i].height >= q[j].height

sameRecords(q1, q2) ==
    /\ Len(q1) = Len(q2)
    /\ \A r \in Records :
          Cardinality({i \in DOMAIN q1 : q1[i] = r})
            = Cardinality({i \in DOMAIN q2 : q2[i] = r})

\* C10: the list a miner-scoped retrieval resolves with is sorted by
\* non-increasing height; the scanning (historical) path returns at most
\* limit records; the direct path returns exactly the records upstream
\* answered with.
C10_SortedAndBounded ==
    mcall.pc = "done" =>
        /\ isSortedDesc(mcall.result)
        /\ mcall.path = "scan" => Len(mcall.result) <= mcall.limit
        /\ (mcall.path = "direct" /\ mcall.failedBatches = 0)
              => sameRecords(mcall.result, lastPage)

\* C10 witness: a historical call that accumulated two records in ascending
\* order under limit 1 and resolved with the higher one only.
C10_Witness ==
    /\ mcall.pc = "done"
    /\ mcall.fromHeight # Undefined
    /\ mcall.limit = 1
    /\ Len(mcall.allMiner) = 2
    /\ mcall.allMiner[1].height < mcall.allMiner[2].height
    /\ mcall.result = <<mcall.allMiner[2]>>

-----------------------------------------------------------------------------
(***************************************************************************)
(* The Data Orchestrator over the Local Cache.                             *)
(***************************************************************************)
\* init() leaves db null when IndexedDB is missing or openDB rejects.
OrchInit ==
    /\ client \in Clients
    /\ FetchInit
    /\ MinerIdle
    /\ RelayIdle
    /\ WorkerIdle
    /\ apiUrl = "u1"
    /\ minerAddress \in {"", "a1"}
    /\ db \in {"open", "null"}
    /\ stores = [sn \in STORES |-> <<>>]
    /\ query = [e \in Entities |->
                  [hasData |-> FALSE, data |-> Empty(e), error |-> "",
                   dataUpdatedAt |-> 0, failureCount |-> 0]]
    /\ queryCache = <<>>
    /\ now = 1
    /\ lastRun = [n |-> 0, entity |-> "poolInfo", fetchOk |-> TRUE,
                  resolved |-> TRUE, fetched |-> 0, io |-> TRUE]

OrchNext ==
    \E e \in Entities : \E up \in UpOutcomes(e) :
    \E ioOk \in IF db = "open" THEN BOOLEAN ELSE {TRUE} :
        /\ lastRun.n < MaxRuns
        /\ RunQuery(e, up, ioOk)
        /\ UNCHANGED <<client, fetchVars, minerVars, otherVars>>

OrchSpec == OrchInit /\ [][OrchNext]_vars

-----------------------------------------------------------------------------
(***************************************************************************)
(* Claims about the Data Orchestrator.                                     *)
(***************************************************************************)
KeyedEntities == {"poolInfo", "minerInfo", "minerPayouts"}

storeOf(e) ==
    CASE e = "poolInfo" -> "poolInfo"
      [] e = "minerInfo" -> "minerInfo"
      [] e = "minerPayouts" -> "payouts"
      [] e \in {"recentShares", "minerShares"} -> "shares"
      [] e \in {"foundBlocks", "minerBlocks"} -> "blocks"
      [] OTHER -> "metadata"

isPrefix(pre, str) == Len(pre) <= Len(str) /\ SubSeq(str, 1, Len(pre)) = pre

\* The Local Cache keys that hold an entity's data under the current
\* (apiUrl, minerAddress).
cacheKeys(st, e) ==
    CASE e = "poolInfo" -> {poolKey(apiUrl)} \cap DOMAIN st.poolInfo
      [] e = "minerInfo" -> {minerKey(apiUrl, minerAddress)} \cap DOMAIN st.minerInfo
      [] e = "minerPayouts" ->
            {payoutsKey(apiUrl, minerAddress)} \cap DOMAIN st.payouts
      [] e = "recentShares" ->
            {k \in DOMAIN st.shares : isPrefix("share_" \o apiUrl \o "_", k)}
      [] e = "minerShares" ->
            {k \in DOMAIN st.shares : /\ isPrefix("share_" \o apiUrl \o "_", k)
                                      /\ st.shares[k].data.miner_address = minerAddress}
      [] e = "foundBlocks" ->
            {k \in DOMAIN st.blocks : isPrefix("block_" \o apiUrl \o "_", k)}
      [] e = "minerBlocks" ->
            {k \in DOMAIN st.blocks : /\ isPrefix("block_" \o apiUrl \o "_", k)
                                      /\ st.blocks[k].data.miner_address = minerAddress}
      [] OTHER -> {}

\* What the Local Cache holds for an entity: key, data, write timestamp.
cacheSnapshot(st, e) ==
    { <<k, st[storeOf(e)][k].data, st[storeOf(e)][k].timestamp>> : k \in cacheKeys(st, e) }

\* The step is a queryFn run of the entity lastRun' names.
isRun == lastRun'.n = lastRun.n + 1

\* After the step the query exposes what the cache held before it.
servesCache(e) ==
    IF e \in KeyedEntities
    THEN \A k \in cacheKeys(stores, e) : query'[e].data = stores[storeOf(e)][k].data
    ELSE /\ query'[e].data # <<>>
         /\ \A i \in DOMAIN query'[e].data :
               \E k \in cacheKeys(stores, e) :
                  stores[storeOf(e)][k].data = query'[e].data[i]

\* C3 (as claimed): for each tracked entity, a run whose upstream fetch
\* fails resolves with the Local Cache entry stored for the entity's key and
\* leaves the error unset; it fails only when no cached entry exists.
\* Runs in which the IndexedDB transaction itself fails are left aside.
C3_CacheFallback ==
    [][ (isRun /\ ~lastRun'.fetchOk /\ lastRun'.io) =>
          LET e == lastRun'.entity
          IN  /\ cacheKeys(stores, e) # {} =>
                    /\ lastRun'.resolved
                    /\ query'[e].error = ""
                    /\ servesCache(e)
              /\ ~lastRun'.resolved => cacheKeys(stores, e) = {} ]_vars

\* C4 (as claimed): for every tracked entity, a run whose upstream fetch
\* fails leaves the value exposed to the UI and the Local Cache entry as
\* they were; neither is replaced by an empty result.
C4_StaleButAvailable ==
    [][ (isRun /\ ~lastRun'.fetchOk) =>
          LET e == lastRun'.entity
          IN  /\ query[e].hasData =>
                    /\ query'[e].hasData
                    /\ query'[e].data = query[e].data
              /\ cacheSnapshot(stores', e) = cacheSnapshot(stores, e) ]_vars

\* C5 (as claimed): a run whose upstream fetch succeeds resolves with the
\* fetched data and no error, also when the Local Cache is unavailable or
\* its write fails.
C5_CacheFailureNotPropagated ==
    [][ (isRun /\ lastRun'.fetchOk) =>
          LET e == lastRun'.entity
          IN  /\ lastRun'.resolved
              /\ query'[e].hasData
              /\ query'[e].error = ""
              /\ IF e \in ScalarEntities \/ e = "minerPayouts"
                 THEN query'[e].data = lastRun'.fetched
                 ELSE sameRecords(query'[e].data, lastRun'.fetched) ]_vars

-----------------------------------------------------------------------------
(***************************************************************************)
(* The Local Cache on its own: P2PoolStorage's public methods, the passing *)
(* of time and cleanup().  Time is counted in days here (the source counts *)
(* milliseconds: one day is 24 * 60 * 60 * 1000).                          *)
(***************************************************************************)
\* Object.entries(STORES)
StoreOrder == <<"poolInfo", "minerInfo", "shares", "blocks", "payouts", "metadata">>

RETENTION_PERIODS(storeName) ==
    CASE storeName = "poolInfo"  -> 1
      [] storeName = "minerInfo" -> 7
      [] storeName = "shares"    -> 30
      [] storeName = "blocks"    -> 365
      [] storeName = "payouts"   -> 365

\* index('timestamp').openCursor(IDBKeyRange.upperBound(cutoffTime)): the
\* bound is inclusive.
expired(f, cutoffTime) == {k \in DOMAIN f : f[k].timestamp <= cutoffTime}

\* cursor.delete() on each entry of the range
remove(f, ks) == [k \in (DOMAIN f) \ ks |-> f[k]]

RECURSIVE count(_, _)
count(st, i) ==
    IF i > Len(StoreOrder) THEN 0
    ELSE Cardinality(DOMAIN st[StoreOrder[i]]) + count(st, i + 1)

calculateStorageSize(st) == count(st, 1) * 1024

\* The for loop of cleanup().  `cursor` is a const that cursor.continue()
\* never replaces: after the last entry of the range is deleted the loop
\* calls cursor.delete() on the exhausted cursor, which throws
\* InvalidStateError into cleanup's catch; a store with nothing in range
\* yields a null cursor and the loop moves on.
RECURSIVE cleanupLoop(_, _)
cleanupLoop(st, i) ==
    IF i > Len(StoreOrder) THEN [stores |-> st, threw |-> FALSE]
    ELSE LET storeName == StoreOrder[i]
         IN  IF storeName = "metadata" THEN cleanupLoop(st, i + 1)
             ELSE LET ks == expired(st[storeName], now - RETENTION_PERIODS(storeName))
                  IN  IF ks = {} THEN cleanupLoop(st, i + 1)
                      ELSE [stores |-> [st EXCEPT ![storeName] = remove(@, ks)],
                            threw |-> TRUE]

\* cleanup()
cleanup(st) ==
    IF notReady THEN Threw(st, "Storage not initialized")
    ELSE LET c == cleanupLoop(st, 1)
         IN  IF c.threw THEN Returned(c.stores)
             ELSE store(c.stores, "metadata", "global",
                        [totalSize |-> calculateStorageSize(c.stores),
                         lastCleanup |-> now], TRUE)

CacheUrls == {"u1", "u2"}
KeyedStores == {"poolInfo", "minerInfo", "payouts"}

keyOf(storeName, url, a) ==
    CASE storeName = "poolInfo"  -> poolKey(url)
      [] storeName = "minerInfo" -> minerKey(url, a)
      [] storeName = "payouts"   -> payoutsKey(url, a)

\* One call of a storage method: lastRun records the method, whether it
\* returned (resolved) or threw, and for a get whether an entry was found
\* (fetchOk) and the data returned (fetched).
CacheCall(method, r, found, value) ==
    /\ lastRun.n < MaxCacheOps
    /\ stores' = r.stores
    /\ lastRun' = [n |-> lastRun.n + 1, entity |-> method, fetchOk |-> found,
                   resolved |-> r.ok, fetched |-> value, io |-> TRUE]
    /\ UNCHANGED <<apiUrl, minerAddress, db, query, queryCache, now>>

\* storePoolInfo / storeMinerInfo / storePayouts
StoreKeyed(storeName, url, a, data) ==
    CacheCall("store_" \o storeName,
              store(stores, storeName, keyOf(storeName, url, a), data, TRUE),
              FALSE, 0)

\* getPoolInfo / getMinerInfo / getPayouts
GetKeyed(storeName, url, a) ==
    LET key == keyOf(storeName, url, a)
        r == retrieve(stores, storeName, key, TRUE)
    IN  CacheCall("get_" \o storeName, r, r.found,
                  IF r.found THEN stores[storeName][key].data ELSE 0)

\* storeShares / storeBlocks
StoreRecords(storeName, url, records) ==
    CacheCall("store_" \o storeName,
              storeRecords(stores, storeName, url, records, TRUE), FALSE,
              [url |-> url, records |-> records])

\* getSharesByMiner / getBlocksByMiner
GetByMiner(storeName) ==
    CacheCall("getByMiner_" \o storeName, getByMiner(stores, storeName), FALSE, 0)

Cleanup == CacheCall("cleanup", cleanup(stores), FALSE, 0)

\* Days pass.
Advance(days) ==
    /\ lastRun.n < MaxCacheOps
    /\ now' = now + days
    /\ lastRun' = [lastRun EXCEPT !.n = @ + 1, !.entity = "advance"]
    /\ UNCHANGED <<apiUrl, minerAddress, db, query, queryCache, stores>>

AdvanceDays == {1, 2, 6, 29, 364}

\* The record lists stored: one record, and two records of one call.
StoredLists ==
    { <<newest("a1")>>, <<newest("a1"), newest("a2")>> }

CacheInit ==
    /\ client = "storage_ts"
    /\ FetchInit
    /\ MinerIdle
    /\ RelayIdle
    /\ WorkerIdle
    /\ apiUrl = "u1"
    /\ minerAddress = ""
    /\ db \in {"open", "null"}
    /\ stores = [sn \in STORES |-> <<>>]
    /\ query = [e \in Entities |->
                  [hasData |-> FALSE, data |-> Empty(e), error |-> "",
                   dataUpdatedAt |-> 0, failureCount |-> 0]]
    /\ queryCache = <<>>
    /\ now = 1
    /\ lastRun = [n |-> 0, entity |-> "none", fetchOk |-> FALSE,
                  resolved |-> TRUE, fetched |-> 0, io |-> TRUE]

CacheNext ==
    \/ \E storeName \in KeyedStores :
          StoreKeyed(storeName, "u1", "a1", 1)
             /\ UNCHANGED <<client, fetchVars, minerVars, otherVars>>
    \/ \E storeName \in KeyedStores :
          GetKeyed(storeName, "u1", "a1")
             /\ UNCHANGED <<client, fetchVars, minerVars, otherVars>>
    \/ \E storeName \in {"shares", "blocks"}, url \in CacheUrls,
          records \in StoredLists :
          StoreRecords(storeName, url, records)
             /\ UNCHANGED <<client, fetchVars, minerVars, otherVars>>
    \/ \E storeName \in {"shares", "blocks"} :
          GetByMiner(storeName) /\ UNCHANGED <<client, fetchVars, minerVars, otherVars>>
    \/ \E days \in AdvanceDays :
          Advance(days) /\ UNCHANGED <<client, fetchVars, minerVars, otherVars>>
    \/ Cleanup /\ UNCHANGED <<client, fetchVars, minerVars, otherVars>>

CacheSpec == CacheInit /\ [][CacheNext]_vars

\* The step is a cleanup() run with the database open.
isCleanup == lastRun'.n = lastRun.n + 1 /\ lastRun'.entity = "cleanup" /\ db = "open"

\* C11 (as claimed): a cleanup() run deletes, in every store except
\* metadata, every entry whose write timestamp precedes now minus the
\* store's retention period, and keeps every other entry unchanged.
\* An entry written exactly at the cutoff is left aside here.
C11_CleanupRetention ==
    [][ isCleanup =>
          \A storeName \in STORES \ {"metadata"} :
             LET cutoffTime == now - RETENTION_PERIODS(storeName)
             IN  \A k \in DOMAIN stores[storeName] :
                    LET written == stores[storeName][k].timestamp
                    IN  /\ written < cutoffTime => k \notin DOMAIN stores'[storeName]
                        /\ written > cutoffTime =>
                              /\ k \in DOMAIN stores'[storeName]
                              /\ stores'[storeName][k] = stores[storeName][k] ]_vars

\* The entries of a store that hold the record (url, height, id).
entriesOf(st, storeName, url, r) ==
    {k \in DOMAIN st[storeName] :
        /\ isPrefix((IF storeName = "shares" THEN "share_" ELSE "block_")
                       \o url \o "_", k)
        /\ st[storeName][k].data.height = r.height
        /\ st[storeName][k].data.id = r.id}

\* The step is a storeShares / storeBlocks call that returned.
isStoreRecords(storeName) ==
    /\ lastRun'.n = lastRun.n + 1
    /\ lastRun'.entity = "store_" \o storeName
    /\ lastRun'.resolved

\* C12: after any sequence of storeShares and storeBlocks calls the cache
\* holds at most one entry per (apiUrl, side_height, template_id) for shares
\* and per (apiUrl, height, id) for blocks, and after a store call the entry
\* of each stored record carries that record and the time of this write.
C12_OneEntryPerKey ==
    /\ [](\A storeName \in {"shares", "blocks"}, url \in CacheUrls, r \in Records :
             Cardinality(entriesOf(stores, storeName, url, r)) <= 1)
    /\ [][ \A storeName \in {"shares", "blocks"} :
             isStoreRecords(storeName) =>
                LET call == lastRun'.fetched
                IN  \A i \in DOMAIN call.records :
                       LET es == entriesOf(stores', storeName, call.url, call.records[i])
                       IN  /\ Cardinality(es) = 1
                           /\ \A k \in es :
                                 /\ stores'[storeName][k].data = call.records[i]
                                 /\ stores'[storeName][k].timestamp = now ]_vars

\* A share stored on an earlier day was stored again: its entry carries the
\* later time while the share stored alongside it keeps the earlier one.
C12_Witness ==
    /\ lastRun.entity = "store_shares"
    /\ lastRun.resolved
    /\ \E k1, k2 \in DOMAIN stores.shares :
          /\ k1 # k2
          /\ isPrefix("share_u1_", k1) /\ isPrefix("share_u1_", k2)
          /\ stores.shares[k1].timestamp = now
          /\ stores.shares[k2].timestamp < now

\* The step is a put or get of the Local Cache.
isPutOrGet ==
    /\ lastRun'.n = lastRun.n + 1
    /\ \E storeName \in STORES :
          lastRun'.entity \in {"store_" \o storeName, "get_" \o storeName}

\* C13 (as claimed): with the storage backend unavailable or never
\* initialised, a Local Cache put returns without doing anything and a get
\* returns not-found; neither throws.
C13_CacheNeverThrows ==
    [][ (isPutOrGet /\ db = "null") =>
          /\ lastRun'.resolved
          /\ ~lastRun'.fetchOk
          /\ stores' = stores ]_vars

-----------------------------------------------------------------------------
(***************************************************************************)
(* The Data Orchestrator under changing props: the dashboard re-renders    *)
(* the hook with another apiUrl or minerAddress.  Upstream answers carry   *)
(* the URL that was asked and the address asked about.                     *)
(***************************************************************************)
SHARES_LIMIT == 10                \* queryKeys.recentShares(apiUrl, 10)
BLOCKS_LIMIT == 5                 \* queryKeys.foundBlocks(apiUrl, 5)
DEFAULT_SHARES_LIMIT == 30
DEFAULT_BLOCKS_LIMIT == 10
REQUEST_LIMIT_SHARES == 25
REQUEST_LIMIT_BLOCKS == 15

\* queryKeys: the key array, joined into one string.
queryKeys(e, url, a, limit) ==
    CASE e = "poolInfo" -> "poolInfo|" \o url
      [] e \in {"recentShares", "foundBlocks"} ->
            e \o "|" \o url \o "|" \o ToString(limit)
      [] e \in {"minerInfo", "minerPayouts", "minerWindowShares"} ->
            e \o "|" \o url \o "|" \o a
      [] e \in {"minerShares", "minerBlocks"} ->
            e \o "|" \o url \o "|" \o a \o "|" \o ToString(limit)
      [] e = "xmrPrice" -> "xmrPrice"

\* The limit in the key of the query the hook observes.
observedLimit(e) ==
    CASE e = "recentShares" -> SHARES_LIMIT
      [] e = "foundBlocks" -> BLOCKS_LIMIT
      [] e = "minerShares" -> DEFAULT_SHARES_LIMIT
      [] e = "minerBlocks" -> DEFAULT_BLOCKS_LIMIT
      [] OTHER -> 0

observedKey(e, url, a) == queryKeys(e, url, a, observedLimit(e))

\* A query that has not run yet.
freshQuery(e) ==
    [hasData |-> FALSE, data |-> Empty(e), error |-> "",
     dataUpdatedAt |-> 0, failureCount |-> 0]

\* The react-query cache with the observed queries written back.
wholeCache ==
    LET observed == { observedKey(e, apiUrl, minerAddress) : e \in Entities }
    IN  [k \in (DOMAIN queryCache) \cup observed |->
            IF k \in observed
            THEN query[CHOOSE e \in Entities :
                          observedKey(e, apiUrl, minerAddress) = k]
            ELSE queryCache[k]]

\* The hook is rendered with other props: each useQuery observes the query
\* under its new key, a fresh one when the cache has none.
SetProps(url, a) ==
    /\ <<url, a>> # <<apiUrl, minerAddress>>
    /\ apiUrl' = url
    /\ minerAddress' = a
    /\ queryCache' = wholeCache
    /\ query' = [e \in Entities |->
                   IF observedKey(e, url, a) \in DOMAIN wholeCache
                   THEN wholeCache[observedKey(e, url, a)]
                   ELSE freshQuery(e)]
    /\ lastRun' = [lastRun EXCEPT !.n = @ + 1, !.entity = "setProps"]
    /\ UNCHANGED <<db, stores, now>>

UrlIndex(url) == IF url = "u1" THEN 0 ELSE 1

\* What the upstream at url answers about address a.
answer(e, url, a) ==
    CASE e \in ScalarEntities -> [url |-> url, address |-> a]
      [] e = "minerPayouts" -> << [url |-> url, address |-> a] >>
      [] OTHER -> << [id |-> newest(a).id + 100 * UrlIndex(url),
                      height |-> MaxHeight, miner_address |-> a,
                      url |-> url, address |-> a] >>

SwitchEntities == {"poolInfo", "minerInfo", "minerShares", "minerPayouts"}

SwitchInit == OrchInit /\ db = "open"

SwitchNext ==
    \/ \E e \in SwitchEntities :
          /\ lastRun.n < MaxSwitchOps
          /\ RunQuery(e, [ok |-> TRUE, status |-> 200,
                          value |-> answer(e, apiUrl, minerAddress)], TRUE)
          /\ UNCHANGED <<client, fetchVars, minerVars, otherVars>>
    \/ \E e \in SwitchEntities :
          /\ lastRun.n < MaxSwitchOps
          /\ RunQuery(e, [ok |-> FALSE, status |-> 503, value |-> Empty(e)], TRUE)
          /\ UNCHANGED <<client, fetchVars, minerVars, otherVars>>
    \/ \E url \in CacheUrls, a \in {""} \cup Addresses :
          /\ lastRun.n < MaxSwitchOps
          /\ SetProps(url, a)
          /\ UNCHANGED <<client, fetchVars, minerVars, otherVars>>

SwitchSpec == SwitchInit /\ [][SwitchNext]_vars

\* The value was answered by the upstream at url about address a.
answeredFor(e, data, url, a) ==
    IF e \in ScalarEntities
    THEN data.url = url /\ (e \in MinerEntities => data.address = a)
    ELSE \A i \in DOMAIN data : data[i].url = url /\ data[i].address = a

\* C14: whatever the sequence of prop changes, fetches and cache fallbacks,
\* the value a query exposes under the current (apiUrl, minerAddress) was
\* answered for that apiUrl and, for the miner entities, that address.
C14_KeyIsolation ==
    \A e \in SwitchEntities :
       query[e].hasData => answeredFor(e, query[e].data, apiUrl, minerAddress)

\* After a change of API URL with values cached under both URLs, a failed
\* miner-info fetch was served from the Local Cache.
C14_Witness ==
    /\ apiUrl = "u2"
    /\ minerAddress = "a1"
    /\ lastRun.entity = "minerInfo"
    /\ ~lastRun.fetchOk
    /\ lastRun.resolved
    /\ query["minerInfo"].hasData
    /\ minerKey("u1", "a1") \in DOMAIN stores.minerInfo
    /\ minerKey("u2", "a1") \in DOMAIN stores.minerInfo

-----------------------------------------------------------------------------
(***************************************************************************)
(* loadMoreShares / loadMoreBlocks.                                        *)
(***************************************************************************)
LoadEntities == {"minerShares", "minerBlocks"}

increment(e) ==
    IF e = "minerShares" THEN REQUEST_LIMIT_SHARES ELSE REQUEST_LIMIT_BLOCKS

\* newLimit = current.length + UI_CONSTANTS.REQUEST_LIMIT_...
newLimit(e) == Len(query[e].data) + increment(e)

\* queryClient.fetchQuery({ queryKey: queryKeys.minerShares(apiUrl,
\* minerAddress, newLimit), queryFn: () => api.getMinerSharesDirect(
\* minerAddress, newLimit) }), and the same with getMinerFoundBlocks.
\* isFresh: the cache holds data under that key younger than staleTime, and
\* fetchQuery returns it without calling the queryFn.
LoadMore(e, up, isFresh) ==
    /\ minerAddress # ""
    /\ LET key == queryKeys(e, apiUrl, minerAddress, newLimit(e))
           hit == isFresh /\ key \in DOMAIN wholeCache /\ wholeCache[key].hasData
           a == apiCall(e, up)
           old == IF key \in DOMAIN wholeCache THEN wholeCache[key]
                  ELSE freshQuery(e)
           entry == IF hit THEN old
                    ELSE IF a.ok
                    THEN [hasData |-> TRUE, data |-> a.value, error |-> "",
                          dataUpdatedAt |-> now, failureCount |-> 0]
                    ELSE [old EXCEPT !.error = a.message]
       IN  /\ IF key = observedKey(e, apiUrl, minerAddress)
              THEN query' = [query EXCEPT ![e] = entry] /\ UNCHANGED queryCache
              ELSE queryCache' = put(queryCache, key, entry) /\ UNCHANGED query
           /\ lastRun' = [n |-> lastRun.n + 1, entity |-> "loadMore_" \o e,
                          fetchOk |-> up.ok, resolved |-> hit \/ a.ok,
                          fetched |-> [limit |-> newLimit(e), result |-> entry.data,
                                       asked |-> ~hit, after |-> lastRun.entity],
                          io |-> TRUE]
    /\ now' = now + 1
    /\ UNCHANGED <<apiUrl, minerAddress, db, stores>>

LoadInit == OrchInit /\ db = "open" /\ minerAddress = "a1"

LoadNext ==
    \/ \E e \in LoadEntities : \E up \in UpOutcomes(e) :
          /\ lastRun.n < MaxLoadOps
          /\ RunQuery(e, up, TRUE)
          /\ UNCHANGED <<client, fetchVars, minerVars, otherVars>>
    \/ \E e \in LoadEntities : \E up \in UpOutcomes(e) : \E isFresh \in BOOLEAN :
          /\ lastRun.n < MaxLoadOps
          /\ LoadMore(e, up, isFresh)
          /\ UNCHANGED <<client, fetchVars, minerVars, otherVars>>

LoadSpec == LoadInit /\ [][LoadNext]_vars

\* The step is a loadMoreShares / loadMoreBlocks call.
isLoadMore(e) == lastRun'.n = lastRun.n + 1 /\ lastRun'.entity = "loadMore_" \o e

\* C15 (as claimed): loadMoreShares / loadMoreBlocks fetch with the limit
\* loaded count + increment (25 for shares, 15 for blocks), and when the call
\* has completed the result the orchestrator exposes is the result of that
\* fetch.
C15_LoadMoreReplaces ==
    [][ \A e \in LoadEntities :
          (isLoadMore(e) /\ lastRun'.resolved) =>
             /\ lastRun'.fetched.limit = Len(query[e].data) + increment(e)
             /\ query'[e].data = lastRun'.fetched.result ]_vars

-----------------------------------------------------------------------------
(***************************************************************************)
(* Values the hook derives from its queries.                               *)
(***************************************************************************)
\* The queries the lastUpdate and error memos list, in their order.
ListedQueries ==
    <<"poolInfo", "recentShares", "foundBlocks", "minerInfo", "minerShares",
      "minerBlocks", "minerPayouts", "minerWindowShares">>

\* Math.max(...times)
maxOf(S) == CHOOSE x \in S : \A y \in S : y <= x

\* lastUpdate: the latest dataUpdatedAt of the listed queries, null (0 here)
\* when none has one.
lastUpdate(q) ==
    LET times == { q[ListedQueries[i]].dataUpdatedAt : i \in DOMAIN ListedQueries } \ {0}
    IN  IF times = {} THEN 0 ELSE maxOf(times)

\* C17 (as claimed): when a failed pool-info fetch is served from the Local
\* Cache, pool info counts towards lastUpdate with the cache entry's write
\* timestamp, not with the time the failed refresh completed.
C17_LastUpdateFromCache ==
    [][ (/\ isRun
         /\ lastRun'.entity = "poolInfo"
         /\ ~lastRun'.fetchOk
         /\ lastRun'.resolved) =>
          LET written == stores.poolInfo[poolKey(apiUrl)].timestamp
              others == lastUpdate([query' EXCEPT !["poolInfo"].dataUpdatedAt = 0])
          IN  lastUpdate(query') = maxOf({written, others}) ]_vars

-----------------------------------------------------------------------------
(***************************************************************************)
(* The relay between the API client and the upstream Pool API, and the     *)
(* miner-scoped queries behind it.                                         *)
(***************************************************************************)
UpstreamStatuses == {200, 404, 503}

\* GET /api/p2pool/[...path]: a 2xx upstream answer is passed on with
\* status 200; for any other the handler throws and answers 500.
GET(upstreamStatus) == IF ok(upstreamStatus) THEN 200 ELSE 500

\* What the API client receives when upstream answers a miner-scoped
\* request with the given status.
viaRelay(e, upstreamStatus, value) ==
    [ok |-> ok(GET(upstreamStatus)), status |-> GET(upstreamStatus),
     value |-> IF ok(upstreamStatus) THEN value ELSE Empty(e),
     upstream |-> upstreamStatus]

RelayEntities == {"minerInfo", "minerPayouts"}

RelayInit == OrchInit /\ minerAddress = "a1"

RelayNext ==
    \E e \in RelayEntities, upstreamStatus \in UpstreamStatuses :
    \E value \in UpValues(e) :
    \E ioOk \in IF db = "open" THEN BOOLEAN ELSE {TRUE} :
        /\ lastRun.n < MaxRelayRuns
        /\ RunQuery(e, viaRelay(e, upstreamStatus, value), ioOk)
        /\ UNCHANGED <<client, fetchVars, minerVars, otherVars>>

RelaySpec == RelayInit /\ [][RelayNext]_vars

\* C18 (as claimed): when upstream answers miner_info/{address} or
\* payouts/{address} with 404, the query run resolves with an empty result
\* and no error is recorded for the entity.
C18_NotFoundIsNoData ==
    [][ (/\ isRun
         /\ lastRun'.entity \in RelayEntities
         /\ lastRun'.up.upstream = 404) =>
          LET e == lastRun'.entity
          IN  /\ lastRun'.resolved
              /\ query'[e].data = Empty(e)
              /\ query'[e].error = ""
              /\ query'[e].failureCount = 0 ]_vars

\* The Local Cache holds the value under the entity's keys.
presentInCache(st, e, value) ==
    CASE e \in KeyedEntities ->
            \E k \in cacheKeys(st, e) : st[storeOf(e)][k].data = value
      [] e \in {"recentShares", "foundBlocks", "minerShares", "minerBlocks"} ->
            \A i \in DOMAIN value :
               \E k \in cacheKeys(st, e) : st[storeOf(e)][k].data = value[i]
      [] OTHER -> FALSE

\* C19 (as claimed): for each tracked entity, when a run returns the value
\* of a successful fetch, that value is already in the Local Cache.
C19_WriteThrough ==
    [][ (isRun /\ lastRun'.fetchOk /\ lastRun'.resolved) =>
          presentInCache(stores', lastRun'.entity, query'[lastRun'.entity].data) ]_vars

-----------------------------------------------------------------------------
(***************************************************************************)
(* The hook's error field, over runs in which queries use up their         *)
(* retries.                                                                *)
(***************************************************************************)
\* errors = [poolInfoQuery.error, ...].filter(Boolean)
RECURSIVE errors(_, _)
errors(q, i) ==
    IF i > Len(ListedQueries) THEN <<>>
    ELSE (IF q[ListedQueries[i]].error # "" THEN <<q[ListedQueries[i]].error>>
          ELSE <<>>) \o errors(q, i + 1)

\* error: errors.length > 0 ? errors[0]?.message || 'Unknown error' : null
\* (null is "" here).
error(q) == IF Len(errors(q, 1)) > 0 THEN Head(errors(q, 1)) ELSE ""

\* One answer or one failure per entity.
ErrOutcomes(e) ==
    { [ok |-> FALSE, status |-> 503, value |-> Empty(e)],
      [ok |-> TRUE, status |-> 200,
       value |-> IF e \in ScalarEntities THEN 1 ELSE <<>>] }

ErrInit == OrchInit /\ db = "open"

ErrNext ==
    \E e \in Entities : \E up \in ErrOutcomes(e) :
        /\ lastRun.n < MaxErrRuns
        /\ RunQuery(e, up, TRUE)
        /\ UNCHANGED <<client, fetchVars, minerVars, otherVars>>

ErrSpec == ErrInit /\ [][ErrNext]_vars

\* The tracked entities in the order of the contract.
TrackedOrder ==
    <<"poolInfo", "recentShares", "foundBlocks", "xmrPrice", "minerInfo",
      "minerShares", "minerBlocks", "minerPayouts", "minerWindowShares">>

\* Positions of the tracked entities whose query has an error.
withError ==
    {i \in DOMAIN TrackedOrder :
        /\ enabled(TrackedOrder[i])
        /\ query[TrackedOrder[i]].error # ""}

\* C20 (as claimed): error is null exactly when no tracked entity has an
\* error, and otherwise the message of the first tracked entity, in the
\* fixed order, that has one.
C20_FirstError ==
    IF withError = {} THEN error(query) = ""
    ELSE error(query) =
            query[TrackedOrder[CHOOSE i \in withError :
                                  \A j \in withError : i <= j]].error

-----------------------------------------------------------------------------
(***************************************************************************)
(* The HTTP relay: GET of app/api/p2pool/[...path]/route.ts and of         *)
(* app/api/price/[...path]/route.ts, one request at a time.                *)
(***************************************************************************)
\* Requests answered in one behaviour of the relay.
MaxServed == 2

RelayRoutes == {"p2pool", "price"}

\* Statuses the upstream server answers with.
UpstreamAnswers == {200, 201, 400, 404, 429, 500, 503}

\* What the handler's fetch(finalUrl, {signal: AbortSignal.timeout(10000)})
\* ends with: a response (whose body parses as JSON or not), the timeout of
\* the signal, or a connection failure.
UpstreamOutcomes ==
    { [kind |-> "response", status |-> st, json |-> j, body |-> [data |-> 1]] :
         st \in UpstreamAnswers, j \in BOOLEAN }
    \cup { [kind |-> "timeout", status |-> 0, json |-> FALSE, body |-> [data |-> 0]],
           [kind |-> "network", status |-> 0, json |-> FALSE, body |-> [data |-> 0]] }

\* The ?apiUrl= parameter of a request to the P2Pool relay ("" when absent).
ApiUrlParams == {"", "u1"}

RelayPaths(route) ==
    IF route = "p2pool" THEN {"pool_info", "payouts/a1"} ELSE {"simple/price"}

\* targetUrl of the route: `${apiUrl}/api/${path}` with the default apiUrl,
\* or `${baseUrl}/${path}`.
targetUrl(route, apiUrlParam, path) ==
    IF route = "p2pool"
    THEN (IF apiUrlParam # "" THEN apiUrlParam ELSE "https://mini.p2pool.observer")
            \o "/api/" \o path
    ELSE "https://api.coingecko.com/api/v3" \o "/" \o path

\* The check of response.ok is missing: every response is taken as a success.
responseOk_always(response) == TRUE

\* response.ok of the upstream response
responseOk(response) == ok(response.status)

\* error.message of what the try block threw.
relayDetails(u) ==
    CASE u.kind = "timeout" -> "The operation was aborted due to timeout"
      [] u.kind = "network" -> "fetch failed"
      [] ~responseOk(u)     -> "HTTP error! status: " \o ToString(u.status)
      [] OTHER              -> "Unexpected end of JSON input"

\* The try block returns (the fetch resolved, response.ok, the body parsed).
relayPasses(u) == u.kind = "response" /\ responseOk(u) /\ u.json

\* The NextResponse of GET for an upstream outcome.
relayResponse(route, u) ==
    IF relayPasses(u)
    THEN [status |-> 200, body |-> u.body]
    ELSE [status |-> 500,
          body |-> [error |-> IF route = "p2pool"
                              THEN "Failed to fetch data from P2Pool API"
                              ELSE "Failed to fetch price data",
                    details |-> relayDetails(u)]]

\* One GET request handled from its arrival to its response.
RelayGET(route, apiUrlParam, path, u) ==
    /\ Len(served) < MaxServed
    /\ served' = Append(served,
                    [route |-> route,
                     finalUrl |-> targetUrl(route, apiUrlParam, path),
                     upstream |-> u,
                     response |-> relayResponse(route, u)])

ProxyInit ==
    /\ client \in Clients
    /\ FetchInit
    /\ OrchIdle
    /\ MinerIdle
    /\ RelayIdle
    /\ WorkerIdle

ProxyNext ==
    \E route \in RelayRoutes, u \in UpstreamOutcomes :
    \E apiUrlParam \in IF route = "p2pool" THEN ApiUrlParams ELSE {""} :
    \E path \in RelayPaths(route) :
        /\ RelayGET(route, apiUrlParam, path, u)
        /\ UNCHANGED <<client, fetchVars, orchVars, minerVars, workerVars>>

ProxySpec == ProxyInit /\ [][ProxyNext]_vars

\* The forwarding failed: no response, or a response that is not 2xx.
forwardingFailed(u) == u.kind # "response" \/ ~ok(u.status)

\* C21: the relay answers 500 with a body {error, details} on every
\* forwarding failure (a non-2xx upstream status, a timeout, a connection
\* failure); it answers with the upstream JSON only when upstream answered
\* 2xx; no answer of the relay has a 4xx status.
C21_RelayAnswers ==
    \A i \in DOMAIN served :
        LET u == served[i].upstream
            r == served[i].response
        IN  /\ forwardingFailed(u) =>
                 /\ r.status = 500
                 /\ DOMAIN r.body = {"error", "details"}
            /\ DOMAIN r.body # {"error", "details"} =>
                 /\ u.kind = "response"
                 /\ ok(u.status)
                 /\ r.body = u.body
            /\ ~(r.status >= 400 /\ r.status <= 499)

\* Both routes have answered: one an upstream 404, the other a timeout.
C21_Witness ==
    /\ \E i \in DOMAIN served :
          /\ served[i].upstream.kind = "response"
          /\ served[i].upstream.status = 404
          /\ served[i].response.status = 500
    /\ \E i \in DOMAIN served :
          /\ served[i].upstream.kind = "timeout"
          /\ served[i].response.status = 500
    /\ {served[i].route : i \in DOMAIN served} = RelayRoutes

-----------------------------------------------------------------------------
(***************************************************************************)
(* Claims about the historical path: the scan loop of getMinerShares and   *)
(* getMinerFoundBlocks when a fromHeight cursor is supplied.               *)
(***************************************************************************)
\* A step of the loop of a call with a cursor: its pending batch fetch ends.
batchEnds ==
    /\ mcall.pc = "batch"
    /\ mcall.fromHeight # Undefined
    /\ mcall' # mcall

\* The batch fetch of the step resolved (it did not throw).
batchResolved == mcall'.failedBatches = mcall.failedBatches

\* The four conditions under which the loop is said to stop.
stopCondition ==
    \/ Len(mcall'.allMiner) >= mcall.limit
    \/ mcall.attempts >= maxAttempts
    \/ batchResolved /\ lastPage' = <<>>
    \/ /\ batchResolved
       /\ lastPage' # <<>>
       /\ minHeight(lastPage') >= mcall.currentFromHeight

\* C22 (as claimed): the historical path performs at most 5 batch fetches
\* and every step of the loop either stops it or starts the next attempt;
\* it stops exactly when the accumulated count reaches the limit, the 5th
\* attempt has been made, upstream returned an empty page, or the batch's
\* minimum height is not below the cursor; a cursor that changes decreases.
C22_HistoricalStops ==
    /\ []( mcall.fromHeight # Undefined =>
             /\ mcall.attempts <= maxAttempts
             /\ Len(requests) <= maxAttempts
             /\ Len(requests) = mcall.attempts )
    /\ [][ batchEnds =>
             /\ mcall'.pc \in {"batch", "done"}
             /\ mcall'.pc = "batch" => mcall'.attempts = mcall.attempts + 1
             /\ mcall'.pc = "done" <=> stopCondition
             /\ mcall'.currentFromHeight # mcall.currentFromHeight =>
                   mcall'.currentFromHeight < mcall.currentFromHeight ]_vars

\* The page has no record of the miner.
noneOf(page, address) == \A i \in DOMAIN page : page[i].miner_address # address

\* C23: when a fetched non-empty batch has no record of the miner (or none
\* below the cursor) and its minimum height is below the cursor, the cursor becomes the minimum
\* height of the whole batch and, unless this was the 5th attempt, the next
\* attempt starts; after such a batch the loop stops only on the 5th
\* attempt or when the batch's minimum height is not below the cursor.
C23_ZeroMatchAdvances ==
    [][ ( /\ batchEnds
          /\ batchResolved
          /\ lastPage' # <<>>
          /\ filtered(lastPage', mcall.address, mcall.currentFromHeight) = <<>> ) =>
            LET minH == minHeight(lastPage')
            IN  /\ minH < mcall.currentFromHeight =>
                     /\ mcall'.currentFromHeight = minH
                     /\ mcall.attempts < maxAttempts =>
                          /\ mcall'.pc = "batch"
                          /\ mcall'.attempts = mcall.attempts + 1
                /\ mcall'.pc = "done" =>
                     \/ mcall.attempts >= maxAttempts
                     \/ minH >= mcall.currentFromHeight
                /\ mcall'.allMiner = mcall.allMiner ]_vars

\* C23 witness: the loop is in its second attempt or later, nothing is
\* accumulated, and the cursor is the minimum height of the latest page,
\* which holds records of other miners only.
C23_Witness ==
    /\ mcall.pc = "batch"
    /\ mcall.fromHeight # Undefined
    /\ mcall.attempts >= 2
    /\ mcall.allMiner = <<>>
    /\ Len(lastPage) = 2
    /\ noneOf(lastPage, mcall.address)
    /\ mcall.currentFromHeight = minHeight(lastPage)
    /\ mcall.currentFromHeight < mcall.fromHeight

\* C24: every record a call with a from-height cursor accumulates, and
\* every record it resolves with, has the requested miner address and a
\* height strictly below the cursor the caller supplied.
C24_OnlyMinerBelowCursor ==
    (mcall.pc # "idle" /\ mcall.fromHeight # Undefined) =>
        /\ \A i \in DOMAIN mcall.allMiner :
              /\ mcall.allMiner[i].miner_address = mcall.address
              /\ mcall.allMiner[i].height < mcall.fromHeight
        /\ \A i \in DOMAIN mcall.result :
              /\ mcall.result[i].miner_address = mcall.address
              /\ mcall.result[i].height < mcall.fromHeight

\* C24 witness: a call with a cursor resolved with a record, and the latest
\* page held that record next to one of the miner at or above the cursor.
C24_Witness ==
    /\ mcall.pc = "done"
    /\ mcall.fromHeight # Undefined
    /\ Len(mcall.result) = 1
    /\ \E i \in DOMAIN lastPage : lastPage[i] = mcall.result[1]
    /\ \E i \in DOMAIN lastPage :
          /\ lastPage[i].miner_address = mcall.address
          /\ lastPage[i].height >= mcall.fromHeight

\* No two records of the list have the same natural key (template_id of a
\* share, main_block.id of a block).
distinctIds(q) == \A i, j \in DOMAIN q : i # j => q[i].id # q[j].id

\* C25: at every point of a scanning call the accumulated records, and the
\* records it resolves with, hold no natural key twice, whatever records
\* the pages repeat.
C25_NoDuplicates ==
    mcall.path = "scan" =>
        /\ distinctIds(mcall.allMiner)
        /\ distinctIds(mcall.result)

\* C25 witness: a scanning call accumulated one record from a page that
\* held that record twice.
C25_Witness ==
    /\ mcall.path = "scan"
    /\ Len(mcall.allMiner) = 1
    /\ Len(lastPage) = 2
    /\ lastPage[1] = lastPage[2]
    /\ lastPage[1] = mcall.allMiner[1]

-----------------------------------------------------------------------------
(***************************************************************************)
(* Claims about the per-attempt timeout and the retry policy of a call in  *)
(* flight.                                                                 *)
(***************************************************************************)
\* The step in which the abort timer of the attempt in flight fires.
timerFires ==
    /\ pc = "attempting"
    /\ Len(outcomes') = Len(outcomes) + 1
    /\ outcomes'[Len(outcomes')].kind = "timeout"

\* C26 (as claimed): when the timeout of an attempt fires, the attempt is a
\* retryable failure: the call goes on to its backoff delay and next
\* attempt while attempts remain, and fails only at attempt maxRetries + 1;
\* the only timer ever armed is that of the attempt in flight, so a timer
\* whose attempt got its response never aborts a later attempt.
C26_TimeoutIsRetryable ==
    /\ [][ timerFires =>
             /\ attempt <= callConfig.maxRetries => pc' = "sleeping"
             /\ pc' = "failed" => attempt = callConfig.maxRetries + 1 ]_vars
    /\ [](timers \subseteq (IF pc = "attempting" THEN {attempt} ELSE {}))

\* A call is between its start and its end.
inFlight == pc \in {"attempting", "sleeping"}

-----------------------------------------------------------------------------
(***************************************************************************)
(* Claims about the writes of different queries to the Local Cache.        *)
(***************************************************************************)
\* The entries the run of this step put: a put stamps its entry with the
\* time of the run, and every run has its own time.
putNow(sn) == { k \in DOMAIN stores'[sn] : stores'[sn][k].timestamp = now }

\* C28 (as claimed): the queryFn runs of different tracked entities never
\* write the same Local Cache key: a run never puts an entry under a key
\* that the run before it, of another entity, had put.
C28_DistinctCacheKeys ==
    [][ (isRun /\ lastRun'.entity # lastRun.entity) =>
          \A sn \in STORES :
             \A k \in putNow(sn) \cap DOMAIN stores[sn] :
                stores[sn][k].timestamp # now - 1 ]_vars

\* The entries of the store written before now minus its retention period.
overdue(st, storeName) ==
    {k \in DOMAIN st[storeName] :
        st[storeName][k].timestamp < now - RETENTION_PERIODS(storeName)}

\* C29 (as claimed): a cleanup() run that finds an expired entry in some
\* store still cleans every store after it and writes the metadata record
\* of the run (lastCleanup = now) in the same run.
C29_CleanupCompletes ==
    [][ ( /\ isCleanup
          /\ \E storeName \in STORES \ {"metadata"} :
                overdue(stores, storeName) # {} ) =>
          /\ \A storeName \in STORES \ {"metadata"} :
                \A k \in overdue(stores, storeName) :
                   k \notin DOMAIN stores'[storeName]
          /\ "global" \in DOMAIN stores'["metadata"]
          /\ stores'["metadata"]["global"].data.lastCleanup = now ]_vars

-----------------------------------------------------------------------------
(***************************************************************************)
(* useWebWorker: the worker lifecycle effect and executeTask.  A task is   *)
(* named by the counter value in its id (`task_${counter}_${Date.now()}`). *)
(***************************************************************************)
\* Tasks accepted in one behaviour.
MaxTasks == 2

\* maxConcurrentTasks = 4 (the default; useDataProcessor passes none)
maxConcurrentTasks == 4

\* resolve / reject of a task's promise: the first call settles it, a
\* later call changes nothing; calls counts them all.
settle(ps, id, state, value) ==
    [ps EXCEPT ![id] = [state |-> IF @.state = "pending" THEN state ELSE @.state,
                        value |-> IF @.state = "pending" THEN value ELSE @.value,
                        calls |-> @.calls + 1]]

\* pendingTasksRef.current.forEach(({ reject }) => reject(new Error(...)))
RECURSIVE rejectAll(_, _, _)
rejectAll(ps, ids, message) ==
    IF ids = {} THEN ps
    ELSE LET id == CHOOSE x \in ids : TRUE
         IN  rejectAll(settle(ps, id, "rejected", message), ids \ {id}, message)

\* The effect runs (mount, or workerScript changed): new Worker(workerScript)
Mount ==
    /\ workerRef = "null"
    /\ workerRef' = "worker"
    /\ inbox' = {}
    /\ UNCHANGED <<pendingTasksRef, taskCounterRef, promises, taskTimers>>

\* The effect's cleanup (unmount, or workerScript changed): terminate the
\* worker, clear the map.  No handler of the map is called.
Unmount ==
    /\ workerRef = "worker"
    /\ workerRef' = "null"
    /\ pendingTasksRef' = {}
    /\ inbox' = {}
    /\ UNCHANGED <<taskCounterRef, promises, taskTimers>>

\* executeTask(type, payload) past its two early rejections: the task is
\* stored, posted (postMessage may throw) and its 30 s timer armed.
executeTask(postOk) ==
    /\ workerRef # "null"
    /\ ~(Cardinality(pendingTasksRef) >= maxConcurrentTasks)
    /\ taskCounterRef < MaxTasks
    /\ LET taskId == taskCounterRef + 1
           p == [state |-> "pending", value |-> "", calls |-> 0]
       IN  /\ taskCounterRef' = taskId
           /\ taskTimers' = taskTimers \cup {taskId}
           /\ IF postOk
              THEN /\ pendingTasksRef' = pendingTasksRef \cup {taskId}
                   /\ inbox' = inbox \cup {taskId}
                   /\ promises' = Append(promises, p)
              ELSE /\ UNCHANGED <<pendingTasksRef, inbox>>
                   /\ promises' = settle(Append(promises, p), taskId,
                                         "rejected", "DataCloneError")
    /\ UNCHANGED workerRef

\* worker.onmessage: the worker answers a task it was posted.
onmessage(id, success) ==
    /\ workerRef = "worker"
    /\ id \in inbox
    /\ inbox' = inbox \ {id}
    /\ IF id \in pendingTasksRef
       THEN /\ pendingTasksRef' = pendingTasksRef \ {id}
            /\ promises' = IF success
                           THEN settle(promises, id, "fulfilled", "result")
                           ELSE settle(promises, id, "rejected", "Worker task failed")
       ELSE UNCHANGED <<pendingTasksRef, promises>>
    /\ UNCHANGED <<workerRef, taskCounterRef, taskTimers>>

\* worker.onerror: reject all pending tasks, clear the map.
onerror ==
    /\ workerRef = "worker"
    /\ pendingTasksRef # {}
    /\ promises' = rejectAll(promises, pendingTasksRef, "Worker error")
    /\ pendingTasksRef' = {}
    /\ UNCHANGED <<workerRef, taskCounterRef, taskTimers, inbox>>

\* The callback of setTimeout(..., 30000) of a task runs.
taskTimeout(id) ==
    /\ id \in taskTimers
    /\ taskTimers' = taskTimers \ {id}
    /\ IF id \in pendingTasksRef
       THEN /\ pendingTasksRef' = pendingTasksRef \ {id}
            /\ promises' = settle(promises, id, "rejected", "Task timeout")
       ELSE UNCHANGED <<pendingTasksRef, promises>>
    /\ UNCHANGED <<workerRef, taskCounterRef, inbox>>

TaskIds == 1..MaxTasks

WorkerInit ==
    /\ client \in Clients
    /\ FetchInit
    /\ OrchIdle
    /\ MinerIdle
    /\ RelayIdle
    /\ WorkerIdle

WorkerNext ==
    \/ Mount /\ UNCHANGED <<client, fetchVars, orchVars, minerVars, relayVars>>
    \/ Unmount /\ UNCHANGED <<client, fetchVars, orchVars, minerVars, relayVars>>
    \/ \E postOk \in BOOLEAN :
          executeTask(postOk)
             /\ UNCHANGED <<client, fetchVars, orchVars, minerVars, relayVars>>
    \/ \E id \in TaskIds, success \in BOOLEAN :
          onmessage(id, success)
             /\ UNCHANGED <<client, fetchVars, orchVars, minerVars, relayVars>>
    \/ onerror /\ UNCHANGED <<client, fetchVars, orchVars, minerVars, relayVars>>
    \/ \E id \in TaskIds :
          taskTimeout(id)
             /\ UNCHANGED <<client, fetchVars, orchVars, minerVars, relayVars>>

\* Every armed timer fires: setTimeout callbacks are never cancelled here.
TimersFire ==
    \E id \in TaskIds :
        taskTimeout(id) /\ UNCHANGED <<client, fetchVars, orchVars, minerVars, relayVars>>

WorkerSpec == WorkerInit /\ [][WorkerNext]_vars /\ WF_vars(TimersFire)

\* executeTask stored the task and returned its promise.
accepted(id) == id \in DOMAIN promises

\* The promise of the task is fulfilled or rejected.
settled(id) == accepted(id) /\ promises[id].state # "pending"

\* C30 (as claimed): the promise of every task executeTask accepted is
\* eventually settled (result, worker error or task timeout), also when
\* the worker is terminated and the map cleared meanwhile, and no promise
\* has resolve or reject called on it twice.
C30_EveryTaskSettles ==
    /\ \A id \in TaskIds : [](accepted(id) => <>settled(id))
    /\ [](\A id \in DOMAIN promises : promises[id].calls <= 1)

====
